---- MODULE Spec2Model ----
(***************************************************************************)
(* Model of lint-gofmt.py (dbmate): a Python 2 script that globs two       *)
(* patterns, runs "gofmt -s -l <file>" on every match ending in ".go",     *)
(* folds the results into exit_status and prints a final message.          *)
(*                                                                         *)
(* Text is a sequence of tokens (single characters for file names, whole   *)
(* literals for the fixed messages).  The environment - the directory      *)
(* contents, the platform's path module and whether a gofmt binary can be  *)
(* started - is chosen in Init and is not written by the script.           *)
(***************************************************************************)
EXTENDS Integers, Sequences, FiniteSets, Bags, TLC

VARIABLES
    fs,              \* filesystem: directory entry -> content class
    nt,              \* TRUE when os.path is ntpath (case-insensitive fnmatch)
    gofmtInstalled,  \* TRUE when the gofmt binary can be started
    pc,              \* "glob", "loop" or "exited"
    pi,              \* index of the next pattern of the glob loop
    files,           \* the list called files
    idx,             \* position of the for loop over files
    exit_status,     \* the variable exit_status (-1 while unbound)
    stdout,          \* what the script has written to standard output
    softspace,       \* Python 2 softspace flag of sys.stdout
    stderr,          \* the terminal's standard error (inherited by gofmt)
    exitcode,        \* exit code of the process (-1 while running)
    uncaught,        \* "none", or the exception that ended the process
    calls,           \* log of the subprocess.check_output calls of this run
    history          \* results of the runs that have ended

vars == <<fs, nt, gofmtInstalled, pc, pi, files, idx, exit_status, stdout,
          softspace, stderr, exitcode, uncaught, calls, history>>

env == <<nt, gofmtInstalled>>

----------------------------------------------------------------------------
(* Bounds *)

MaxFiles == 2      \* most directory entries present in the filesystem
MaxRuns == 2       \* most runs of the script in a behaviour

----------------------------------------------------------------------------
(* Text helpers *)

EndsWith(s, suffix) ==
    /\ Len(s) >= Len(suffix)
    /\ SubSeq(s, Len(s) - Len(suffix) + 1, Len(s)) = suffix

IsSpace(c) == c \in {" ", "\n", "\t"}

Perms(S) ==
    {s \in [1..Cardinality(S) -> S] :
        \A i, j \in DOMAIN s : i # j => s[i] # s[j]}

----------------------------------------------------------------------------
(* The filesystem the script may meet *)

CurDir == <<>>
CmdDbmate == <<"cmd", "/", "dbmate">>

Universe ==
    { [dir |-> CurDir,    name |-> <<"a", ".", "g", "o">>],
      [dir |-> CurDir,    name |-> <<"c", ".", "g", "o">>],
      [dir |-> CurDir,    name |-> <<"B", ".", "G", "O">>],
      [dir |-> CurDir,    name |-> <<".", "h", ".", "g", "o">>],
      [dir |-> CmdDbmate, name |-> <<"m", ".", "g", "o">>],
      [dir |-> CmdDbmate, name |-> <<"n", ".", "t", "x", "t">>] }

\* What gofmt meets at a path:
\*   formatted    conforming Go source
\*   unformatted  Go source gofmt would rewrite
\*   syntaxerr    not parseable: gofmt reports on stderr and exits 2
\*   mixeddir     a directory holding an unformatted file and an unparseable
\*                one: gofmt lists the first, reports the second, exits 2
\*   fatal        gofmt is terminated by a signal on it: no output at all
Contents == {"formatted", "unformatted", "syntaxerr", "mixeddir", "fatal"}

Sep == IF nt THEN "\\" ELSE "/"

\* os.path.join(dirname, name)
Join(dirname, name) ==
    IF dirname = <<>> THEN name ELSE dirname \o <<Sep>> \o name

Lower(c) ==
    CASE c = "B" -> "b"
      [] c = "G" -> "g"
      [] c = "O" -> "o"
      [] OTHER -> c

\* os.path.normcase: identity for posixpath, lower case for ntpath
NormCase(s) ==
    IF nt THEN [i \in DOMAIN s |-> IF s[i] = "/" THEN "\\" ELSE Lower(s[i])]
    ELSE s

RECURSIVE Match(_, _)
Match(pat, s) ==
    IF pat = <<>> THEN s = <<>>
    ELSE IF Head(pat) = "*"
         THEN Match(Tail(pat), s) \/ (s # <<>> /\ Match(pat, Tail(s)))
         ELSE s # <<>> /\ Head(s) = Head(pat) /\ Match(Tail(pat), Tail(s))

\* fnmatch.filter as glob1 uses it
FnMatch(name, pat) == Match(NormCase(pat), NormCase(name))

Listdir(dirname) == {e.name : e \in {x \in DOMAIN fs : x.dir = dirname}}

\* glob.glob1(dirname, pattern): names starting with a dot are dropped
\* unless the pattern starts with one
Glob1(dirname, pattern) ==
    {n \in Listdir(dirname) :
        /\ (Head(pattern) # "." => Head(n) # ".")
        /\ FnMatch(n, pattern)}

\* glob.glob(p), as a set; the order is that of os.listdir
Glob(p) == {Join(p.dirname, n) : n \in Glob1(p.dirname, p.basename)}

Patterns ==
    << [dirname |-> CurDir,    basename |-> <<"*", ".", "g", "o">>],
       [dirname |-> CmdDbmate, basename |-> <<"*", ".", "g", "o">>] >>

DotGo == <<".", "g", "o">>

IsCandidate(filename) == EndsWith(filename, DotGo)

----------------------------------------------------------------------------
(* gofmt *)

\* the argument vector with the write flag in place of the list flag
GofmtArgs_Write(filename) == <<"gofmt", "-s", "-w", filename>>

\* the argument vector with the write flag added to the list flag
GofmtArgs_ListWrite(filename) == <<"gofmt", "-s", "-l", "-w", filename>>

GofmtArgs(filename) == <<"gofmt", "-s", "-l", filename>>

Entry(path) == CHOOSE e \in DOMAIN fs : Join(e.dir, e.name) = path

HasFlag(argv, flag) == \E i \in 2..(Len(argv) - 1) : argv[i] = flag

\* The gofmt command on its last argument: exit status, standard output,
\* standard error, and the content it leaves at the path.
Gofmt(argv) ==
    LET path == argv[Len(argv)]
        c == fs[Entry(path)]
        listing == IF HasFlag(argv, "-l") THEN path \o <<"\n">>
                   ELSE IF HasFlag(argv, "-w") THEN <<>>
                   ELSE <<"<formatted source>", "\n">>
        rewritten == IF HasFlag(argv, "-w") THEN "formatted" ELSE c
    IN  CASE c = "formatted" ->
               [rc |-> 0,
                out |-> IF HasFlag(argv, "-l") \/ HasFlag(argv, "-w")
                        THEN <<>> ELSE <<"<formatted source>", "\n">>,
                err |-> <<>>, content |-> c]
          [] c = "unformatted" ->
               [rc |-> 0, out |-> listing, err |-> <<>>,
                content |-> rewritten]
          [] c = "syntaxerr" ->
               [rc |-> 2, out |-> <<>>,
                err |-> path \o <<":1:1: expected 'package'", "\n">>,
                content |-> c]
          [] c = "mixeddir" ->
               [rc |-> 2, out |-> listing,
                err |-> path \o <<":1:1: expected 'package'", "\n">>,
                content |-> c]
          [] OTHER ->
               [rc |-> -9, out |-> <<>>, err |-> <<>>, content |-> c]

----------------------------------------------------------------------------
(* The print statement of Python 2 *)

\* PRINT_ITEM: a pending soft space is written first; the flag is set again
\* unless the item ends in whitespace other than a blank
PrintItem(state, v) ==
    [text |-> state.text \o (IF state.softspace THEN <<" ">> ELSE <<>>) \o v,
     softspace |-> (v = <<>>) \/ ~IsSpace(v[Len(v)]) \/ v[Len(v)] = " "]

\* PRINT_NEWLINE
PrintNewline(state) ==
    [text |-> state.text \o <<"\n">>, softspace |-> FALSE]

Out == [text |-> stdout, softspace |-> softspace]

RemediationMsg ==
    "Reformat the files listed above with \"gofmt -s -w\" and try again."

SuccessMsg == "All files pass gofmt."

TracebackMsg == "Traceback (most recent call last): OSError: [Errno 2]"

----------------------------------------------------------------------------
(* The script *)

\* a fold that assigns the status of the last file instead of keeping a failure
StatusAfterOutput_Reset(status, out) == IF out # <<>> THEN 1 ELSE 0

\* exit_status after a check_output call that returned out
StatusAfterOutput(status, out) == IF out # <<>> THEN 1 ELSE status

\* exit_status after a check_output call that raised CalledProcessError
StatusAfterError(status) == 1

\* the closing test inverted
FinalMsg_Swapped(status) == IF status = 0 THEN RemediationMsg ELSE SuccessMsg

\* the message of the closing lines
FinalMsg(status) == IF status # 0 THEN RemediationMsg ELSE SuccessMsg

\* the code passed to exit()
FinalCode(status) == IF status # 0 THEN status ELSE 0

Result == [exit_status |-> exit_status, exitcode |-> exitcode,
           stdout |-> stdout, stderr |-> stderr, uncaught |-> uncaught]

Init ==
    /\ \E D \in SUBSET Universe :
          /\ Cardinality(D) <= MaxFiles
          /\ fs \in [D -> Contents]
    /\ nt \in BOOLEAN
    /\ gofmtInstalled \in BOOLEAN
    /\ pc = "glob"
    /\ pi = 1
    /\ files = <<>>
    /\ idx = 1
    /\ exit_status = -1
    /\ stdout = <<>>
    /\ softspace = FALSE
    /\ stderr = <<>>
    /\ exitcode = -1
    /\ uncaught = "none"
    /\ calls = <<>>
    /\ history = <<>>

\* for p in [...]: files.extend(glob.glob(p))
GlobPattern ==
    /\ pc = "glob"
    /\ pi <= Len(Patterns)
    /\ \E order \in Perms(Glob(Patterns[pi])) : files' = files \o order
    /\ pi' = pi + 1
    /\ UNCHANGED <<fs, env, pc, idx, exit_status, stdout, softspace, stderr,
                   exitcode, uncaught, calls, history>>

\* exit_status = 0, and the for loop over files begins
StartLoop ==
    /\ pc = "glob"
    /\ pi > Len(Patterns)
    /\ exit_status' = 0
    /\ idx' = 1
    /\ pc' = "loop"
    /\ UNCHANGED <<fs, env, pi, files, stdout, softspace, stderr, exitcode,
                   uncaught, calls, history>>

\* an iteration whose filename does not end in '.go'
SkipFile ==
    /\ pc = "loop"
    /\ idx <= Len(files)
    /\ ~IsCandidate(files[idx])
    /\ idx' = idx + 1
    /\ UNCHANGED <<fs, env, pc, pi, files, exit_status, stdout, softspace,
                   stderr, exitcode, uncaught, calls, history>>

\* an iteration whose check_output call starts gofmt: the call returns the
\* output (exit 0) or raises CalledProcessError (any other exit)
CheckFile ==
    /\ pc = "loop"
    /\ idx <= Len(files)
    /\ IsCandidate(files[idx])
    /\ gofmtInstalled
    /\ LET argv == GofmtArgs(files[idx])
           r == Gofmt(argv)
           printed == IF r.rc = 0 /\ r.out # <<>>
                      THEN PrintItem(Out, r.out) ELSE Out
       IN  /\ fs' = [fs EXCEPT ![Entry(files[idx])] = r.content]
           /\ stderr' = stderr \o r.err
           /\ stdout' = printed.text
           /\ softspace' = printed.softspace
           /\ exit_status' = IF r.rc = 0
                             THEN StatusAfterOutput(exit_status, r.out)
                             ELSE StatusAfterError(exit_status)
           /\ calls' = Append(calls, [argv |-> argv, filename |-> files[idx],
                                      started |-> TRUE, rc |-> r.rc,
                                      out |-> r.out])
    /\ idx' = idx + 1
    /\ UNCHANGED <<env, pc, pi, files, exitcode, uncaught, history>>

\* an iteration whose check_output call cannot start gofmt: Popen raises
\* OSError, which no except clause matches; the interpreter prints the
\* traceback and exits with status 1
CheckFileOSError ==
    /\ pc = "loop"
    /\ idx <= Len(files)
    /\ IsCandidate(files[idx])
    /\ ~gofmtInstalled
    /\ calls' = Append(calls, [argv |-> GofmtArgs(files[idx]),
                               filename |-> files[idx],
                               started |-> FALSE, rc |-> -1, out |-> <<>>])
    /\ stderr' = stderr \o <<TracebackMsg, "\n">>
    /\ uncaught' = "OSError"
    /\ exitcode' = 1
    /\ pc' = "exited"
    /\ history' = Append(history, [Result EXCEPT !.stderr = stderr',
                                                 !.uncaught = uncaught',
                                                 !.exitcode = exitcode'])
    /\ UNCHANGED <<fs, env, pi, files, idx, exit_status, stdout, softspace>>

\* the closing lines: the final message and exit()
Report(status) ==
    /\ pc = "loop"
    /\ idx > Len(files)
    /\ LET printed == PrintNewline(PrintItem(Out, <<FinalMsg(status)>>))
       IN  /\ stdout' = printed.text
           /\ softspace' = printed.softspace
    /\ exitcode' = FinalCode(status)
    /\ pc' = "exited"
    /\ history' = Append(history, [Result EXCEPT !.stdout = stdout',
                                                 !.exitcode = exitcode'])
    /\ UNCHANGED <<fs, env, pi, files, idx, exit_status, stderr, uncaught,
                   calls>>

ReportFailure == exit_status # 0 /\ Report(exit_status)

ReportSuccess == exit_status = 0 /\ Report(exit_status)

\* the script is started again, in the same directory
NextRun ==
    /\ pc = "exited"
    /\ Len(history) < MaxRuns
    /\ pc' = "glob"
    /\ pi' = 1
    /\ files' = <<>>
    /\ idx' = 1
    /\ exit_status' = -1
    /\ stdout' = <<>>
    /\ softspace' = FALSE
    /\ stderr' = <<>>
    /\ exitcode' = -1
    /\ uncaught' = "none"
    /\ calls' = <<>>
    /\ UNCHANGED <<fs, env, history>>

Next ==
    \/ GlobPattern
    \/ StartLoop
    \/ SkipFile
    \/ CheckFile
    \/ CheckFileOSError
    \/ ReportFailure
    \/ ReportSuccess
    \/ NextRun

Spec == Init /\ [][Next]_vars

----------------------------------------------------------------------------
(* Vocabulary of the properties *)

Exited == pc = "exited"

\* sub occurs in s as a contiguous piece
Contains(s, sub) ==
    \E i \in 0..(Len(s) - Len(sub)) : SubSeq(s, i + 1, i + Len(sub)) = sub

Count(s, tok) == Cardinality({i \in DOMAIN s : s[i] = tok})

TokenBag(s) == [t \in {s[i] : i \in DOMAIN s} |-> Count(s, t)]

\* the candidate files of the run: matched paths ending in '.go'
Candidates == {files[i] : i \in {j \in DOMAIN files : IsCandidate(files[j])}}

\* the gofmt check of a file: simplify, list mode, that one file
CheckOf(f) == Gofmt(<<"gofmt", "-s", "-l", f>>)

\* the file's check ran and reported issues or terminated abnormally
Violates(f) ==
    /\ gofmtInstalled
    /\ (CheckOf(f).out # <<>> \/ CheckOf(f).rc # 0)

CalledOn(f) == {k \in DOMAIN calls : calls[k].filename = f}

NormalFailureEnd ==
    /\ uncaught = "none"
    /\ exit_status = 1
    /\ exitcode # 0
    /\ Count(stdout, RemediationMsg) = 1
    /\ EndsWith(stdout, <<RemediationMsg, "\n">>)
    /\ Count(stdout, SuccessMsg) = 0

----------------------------------------------------------------------------
(* C1 *)

C1_StatusAtEnd ==
    Exited => ((exit_status = 1) <=> (\E f \in Candidates : Violates(f)))

C1_NeverReset ==
    (pc = "loop" /\ exit_status = 1) => (exit_status' = 1)

----------------------------------------------------------------------------
(* C2 *)

\* C2: when a run has ended, the exit code equals exit_status; on success
\* the success message is all that was printed and the code is 0; on
\* failure the remediation message was printed once, last, the success
\* message was not printed, and the code is not 0.
C2_ExitCodeAndMessage ==
    Exited =>
        /\ exitcode = exit_status
        /\ (exit_status = 0 =>
                stdout = <<SuccessMsg, "\n">> /\ exitcode = 0)
        /\ (exit_status # 0 => NormalFailureEnd)

----------------------------------------------------------------------------
(* C3 *)

C3_Reported(f) ==
    /\ exit_status = 1
    /\ exitcode # 0
    /\ Contains(stdout, CheckOf(f).out)

\* C3: when a run has ended, every candidate whose gofmt check
\* wrote something to standard output, with any exit status, made the
\* status failure and the exit code non-zero, and its output is in the
\* printed report.
C3_OutputReportedAnyExit ==
    Exited =>
        \A f \in Candidates :
            (gofmtInstalled /\ CheckOf(f).out # <<>>) => C3_Reported(f)

----------------------------------------------------------------------------
(* C4 *)

\* C4: when a run has ended, every check_output call that could not start
\* gofmt or saw it exit with an error status made the status failure, and
\* the run ended through the failure path: remediation message printed,
\* non-zero exit code, no unhandled exception.
C4_InvocationFailureIsViolation ==
    Exited =>
        \A k \in DOMAIN calls :
            (~calls[k].started \/ calls[k].rc # 0) => NormalFailureEnd

----------------------------------------------------------------------------
(* C5 *)

CallFailed(k) ==
    \/ ~calls[k].started
    \/ calls[k].rc # 0
    \/ calls[k].out # <<>>

\* C5: when a run has ended, for every candidate whose check failed the
\* text the user was shown (standard output, or the standard error the
\* child process shares) names that file.
C5_EveryFailureSurfaced ==
    Exited =>
        \A k \in DOMAIN calls :
            CallFailed(k) =>
                \/ Contains(stdout, calls[k].filename)
                \/ Contains(stderr, calls[k].filename)

----------------------------------------------------------------------------
(* C6 *)

\* C6: no step of a run changes the filesystem: the set of files and the
\* content of each stay what they were.
C6_FilesystemUnchanged == [][fs' = fs]_vars

\* a finished run in which gofmt was run on a file it would rewrite
C6_Witness ==
    /\ Exited
    /\ \E k \in DOMAIN calls :
          /\ calls[k].started
          /\ fs[Entry(calls[k].filename)] = "unformatted"

----------------------------------------------------------------------------
(* C7 *)

\* C7: when a run whose patterns matched no file has ended, check_output
\* was never called, the status is success, the success message is what
\* was printed, and the exit code is 0.
C7_NoFilesSucceeds ==
    (Exited /\ files = <<>>) =>
        /\ calls = <<>>
        /\ exit_status = 0
        /\ stdout = <<SuccessMsg, "\n">>
        /\ exitcode = 0

\* a finished run that matched nothing in a directory that is not empty,
\* with no gofmt to start
C7_Witness ==
    /\ Exited
    /\ files = <<>>
    /\ DOMAIN fs # {}
    /\ ~gofmtInstalled

----------------------------------------------------------------------------
(* C8 *)

SameOutcome(r1, r2) ==
    /\ r1.exit_status = r2.exit_status
    /\ r1.exitcode = r2.exitcode
    /\ TokenBag(r1.stdout) = TokenBag(r2.stdout)

\* C8: any two runs in the same directory ended with the same status, the
\* same exit code and the same printed report, up to the order of the
\* report's parts.
C8_RunsAgree ==
    \A i, j \in DOMAIN history : SameOutcome(history[i], history[j])

\* two failed runs that listed the same two files in different orders
C8_Witness ==
    /\ Len(history) = 2
    /\ history[1].exitcode = 1
    /\ history[1].stdout # history[2].stdout
    /\ Len(history[1].stdout) > 2

----------------------------------------------------------------------------
(* C9 *)

CallFilenames == [k \in DOMAIN calls |-> calls[k].filename]

\* C9: when a run has ended, it was not aborted, and the completed gofmt
\* invocations are exactly the candidate files, once each, in the order
\* the files were collected.
C9_EveryCandidateCheckedOnce ==
    Exited =>
        /\ uncaught = "none"
        /\ \A k \in DOMAIN calls : calls[k].started
        /\ CallFilenames = SelectSeq(files, IsCandidate)

----------------------------------------------------------------------------
(* C10 *)

\* C10: when a run has ended, no matched path that does not end in '.go'
\* was passed to gofmt or appears in what was printed, and every matched
\* path ending in '.go' was checked by a gofmt invocation.
C10_SuffixFilter ==
    Exited =>
        \A i \in DOMAIN files :
            IF IsCandidate(files[i])
            THEN \E k \in CalledOn(files[i]) : calls[k].started
            ELSE /\ CalledOn(files[i]) = {}
                 /\ ~Contains(stdout, files[i])
                 /\ ~Contains(stderr, files[i])

====
